---- MODULE Spec2Model ----
(***************************************************************************)
(* Model of the numerology calculator's calculation core                   *)
(* (src/numerology.py) as exercised by its callers: names are sequences of *)
(* characters, each character a string ("A", "a", " ", "\t", "1", "-",     *)
(* or a code point written "U+00DF").                                      *)
(***************************************************************************)
EXTENDS Integers, Sequences, FiniteSets, TLC

VARIABLES
    driver,       \* which entry points the caller exercises: "by_name" or "by_number"
    name,         \* the name passed to validate_name_input / calculate_numerology_value
    validation,   \* outcome of validate_name_input(name)
    total,        \* calculate_numerology_value: local `total` after the scan
    valid_chars,  \* calculate_numerology_value: local `valid_chars` after the scan
    result,       \* outcome of calculate_numerology_value(name)
    meaning,      \* outcome of get_numerology_meaning, "" before the call
    input,        \* the argument of a direct reduce_to_final_number / get_numerology_meaning call
    rpc,          \* position inside reduce_to_final_number
    number,       \* reduce_to_final_number: local `number`
    digit_sum,    \* reduce_to_final_number: local `digit_sum`
    temp,         \* reduce_to_final_number: local `temp`
    parts,        \* outcome of parse_name_components(name), <<>> before the call
    details,      \* outcome of process_name_for_display(name, get_letter_values())
    history_file, \* calculation_history.json: missing, unparsable, or a list of entries
    session,      \* st.session_state
    screen,       \* what the last run of main() rendered, and the click that caused it
    call          \* the last direct call of save_to_history and what it returned

vars == <<driver, name, validation, total, valid_chars, result, meaning,
          input, rpc, number, digit_sum, temp,
          parts, details, history_file, session, screen, call>>

nameVars == <<name, validation, total, valid_chars, result>>
reduceVars == <<input, rpc, number, digit_sum, temp>>
helperVars == <<parts, details>>
appVars == <<history_file, session, screen, call>>
coreVars == <<validation, total, valid_chars, result, meaning,
              input, rpc, number, digit_sum, temp>>

(***************************************************************************)
(* Bounds                                                                  *)
(***************************************************************************)
MaxNameLen == 2
MaxNumber == 999
MaxHistory == 2

(***************************************************************************)
(* Characters                                                              *)
(***************************************************************************)
UpperLetters == <<"A", "B", "C", "D", "E", "F", "G", "H", "I", "J", "K", "L", "M",
                  "N", "O", "P", "Q", "R", "S", "T", "U", "V", "W", "X", "Y", "Z">>
LowerLetters == <<"a", "b", "c", "d", "e", "f", "g", "h", "i", "j", "k", "l", "m",
                  "n", "o", "p", "q", "r", "s", "t", "u", "v", "w", "x", "y", "z">>

AsciiUpper == {UpperLetters[i] : i \in 1..26}
AsciiLower == {LowerLetters[i] : i \in 1..26}

\* U+00E9 is e-acute, U+00C9 its capital, U+00DF the sharp s.
OtherAlpha == {"U+00E9", "U+00C9", "U+00DF"}
Whitespace == {" ", "\t"}
Digits == {"1"}
Punctuation == {"-"}

Alphabet == AsciiUpper \cup AsciiLower \cup OtherAlpha \cup Whitespace
              \cup Digits \cup Punctuation

\* str.isalpha() and str.isspace() on one character
isalpha(c) == c \in AsciiUpper \cup AsciiLower \cup OtherAlpha
isspace(c) == c \in Whitespace

\* str.upper() on one character: a sequence, since the sharp s becomes "SS"
UpperTable ==
    [c \in Alphabet |->
        IF c \in AsciiLower
        THEN <<UpperLetters[CHOOSE i \in 1..26 : LowerLetters[i] = c]>>
        ELSE IF c = "U+00E9" THEN <<"U+00C9">>
        ELSE IF c = "U+00DF" THEN <<"S", "S">>
        ELSE <<c>>]

\* str.lower() on one character
LowerTable ==
    [c \in Alphabet |->
        IF c \in AsciiUpper
        THEN LowerLetters[CHOOSE i \in 1..26 : UpperLetters[i] = c]
        ELSE IF c = "U+00C9" THEN "U+00E9"
        ELSE c]

\* variant: the name is scanned without upper-casing
str_upper_omitted(s) == s

RECURSIVE str_upper(_)
str_upper(s) ==
    IF s = <<>> THEN <<>> ELSE UpperTable[Head(s)] \o str_upper(Tail(s))

str_lower(s) == [i \in 1..Len(s) |-> LowerTable[s[i]]]

\* str.strip(): drop leading and trailing whitespace
RECURSIVE lstrip(_)
lstrip(s) ==
    IF s # <<>> /\ isspace(Head(s)) THEN lstrip(Tail(s)) ELSE s

RECURSIVE rstrip(_)
rstrip(s) ==
    IF s # <<>> /\ isspace(s[Len(s)]) THEN rstrip(SubSeq(s, 1, Len(s) - 1)) ELSE s

str_strip(s) == rstrip(lstrip(s))

(***************************************************************************)
(* calculate_numerology_value                                              *)
(***************************************************************************)
\* the dictionary `letter_values` inside calculate_numerology_value
letter_values ==
    ("A" :> 1) @@ ("J" :> 1) @@ ("S" :> 3) @@
    ("B" :> 2) @@ ("K" :> 2) @@ ("T" :> 4) @@
    ("C" :> 3) @@ ("L" :> 3) @@ ("U" :> 6) @@
    ("D" :> 4) @@ ("M" :> 4) @@ ("V" :> 6) @@
    ("E" :> 5) @@ ("N" :> 5) @@ ("W" :> 6) @@
    ("F" :> 8) @@ ("O" :> 7) @@ ("X" :> 5) @@
    ("G" :> 3) @@ ("P" :> 8) @@ ("Y" :> 1) @@
    ("H" :> 5) @@ ("Q" :> 1) @@ ("Z" :> 7) @@
    ("I" :> 1) @@ ("R" :> 2)

\* the table in the docstring of calculate_numerology_value
docstring_values ==
    ("A" :> 1) @@ ("J" :> 1) @@ ("S" :> 1) @@
    ("B" :> 2) @@ ("K" :> 2) @@ ("T" :> 2) @@
    ("C" :> 3) @@ ("L" :> 3) @@ ("U" :> 3) @@
    ("D" :> 4) @@ ("M" :> 4) @@ ("V" :> 4) @@
    ("E" :> 5) @@ ("N" :> 5) @@ ("W" :> 5) @@
    ("F" :> 6) @@ ("O" :> 6) @@ ("X" :> 6) @@
    ("G" :> 7) @@ ("P" :> 7) @@ ("Y" :> 7) @@
    ("H" :> 8) @@ ("Q" :> 8) @@ ("Z" :> 8) @@
    ("I" :> 9) @@ ("R" :> 9)

\* variant: 44 also treated as a master number
MasterNumbersWith44 == {11, 22, 33, 44}

\* `number in [11, 22, 33]`
MasterNumbers == {11, 22, 33}

\* variant: only `not name`, the strip() test left out
IsBlank_no_strip(s) == s = <<>>

\* `not name or not name.strip()`
IsBlank(s) == s = <<>> \/ str_strip(s) = <<>>

\* the inner loop of reduce_to_final_number: `while temp > 0`
RECURSIVE sum_digits(_, _)
sum_digits(t, ds) ==
    IF t > 0 THEN sum_digits(t \div 10, ds + (t % 10)) ELSE ds

\* the outer loop of reduce_to_final_number: `while number > 9`
RECURSIVE reduce_to_final_number(_)
reduce_to_final_number(n) ==
    IF n > 9
    THEN IF n \in MasterNumbers
         THEN n
         ELSE reduce_to_final_number(sum_digits(n, 0))
    ELSE n

\* variant: `total = letter_values[char]` instead of `total += ...`
RECURSIVE scan_assign(_, _, _)
scan_assign(s, t, v) ==
    IF s = <<>>
    THEN [total |-> t, valid_chars |-> v]
    ELSE IF Head(s) \in DOMAIN letter_values
         THEN scan_assign(Tail(s), letter_values[Head(s)], v + 1)
         ELSE scan_assign(Tail(s), t, v)

\* variant: `break` at the first character that is not in the map
RECURSIVE scan_break(_, _, _)
scan_break(s, t, v) ==
    IF s = <<>>
    THEN [total |-> t, valid_chars |-> v]
    ELSE IF Head(s) \in DOMAIN letter_values
         THEN scan_break(Tail(s), t + letter_values[Head(s)], v + 1)
         ELSE [total |-> t, valid_chars |-> v]

\* the loop `for char in name.upper()` with its two accumulators
RECURSIVE scan(_, _, _)
scan(s, t, v) ==
    IF s = <<>>
    THEN [total |-> t, valid_chars |-> v]
    ELSE IF Head(s) \in DOMAIN letter_values
         THEN scan(Tail(s), t + letter_values[Head(s)], v + 1)
         ELSE scan(Tail(s), t, v)

NoResult == [state |-> "none", value |-> 0, error |-> ""]
Returned(v) == [state |-> "returned", value |-> v, error |-> ""]
Raised(msg) == [state |-> "raised", value |-> 0, error |-> msg]

calculate_numerology_value(s) ==
    IF IsBlank(s)
    THEN Raised("Name cannot be empty")
    ELSE LET sc == scan(str_upper(s), 0, 0)
         IN  IF sc.valid_chars = 0
             THEN Raised("Name must contain at least one valid letter")
             ELSE Returned(reduce_to_final_number(sc.total))

(***************************************************************************)
(* get_numerology_meaning                                                  *)
(***************************************************************************)
meanings ==
    (1 :> "Leadership, independence, pioneering spirit") @@
    (2 :> "Cooperation, balance, diplomacy") @@
    (3 :> "Creativity, communication, optimism") @@
    (4 :> "Stability, hard work, practicality") @@
    (5 :> "Freedom, adventure, versatility") @@
    (6 :> "Nurturing, responsibility, compassion") @@
    (7 :> "Spirituality, introspection, analysis") @@
    (8 :> "Material success, ambition, authority") @@
    (9 :> "Humanitarian, generous, completion") @@
    (11 :> "Intuition, inspiration, enlightenment (Master Number)") @@
    (22 :> "Master builder, practical idealism (Master Number)") @@
    (33 :> "Master teacher, compassion, healing (Master Number)")

\* variant: only the single digits are looked up
get_meaning_single_digits(n) ==
    IF n \in 1..9 THEN meanings[n] ELSE "Unknown number"

\* meanings.get(number, "Unknown number")
get_numerology_meaning(n) ==
    IF n \in DOMAIN meanings THEN meanings[n] ELSE "Unknown number"

(***************************************************************************)
(* validate_name_input                                                     *)
(***************************************************************************)
NoValidation == [state |-> "none", valid |-> FALSE, error |-> ""]
Validated(ok, msg) == [state |-> "returned", valid |-> ok, error |-> msg]

\* any(char.isalpha() for char in name)
has_letter(s) == \E i \in 1..Len(s) : isalpha(s[i])

validate_name_input(s) ==
    IF IsBlank(s)
    THEN Validated(FALSE, "Please enter a name")
    ELSE IF ~has_letter(s)
         THEN Validated(FALSE, "Name must contain at least one letter")
         ELSE Validated(TRUE, "")

(***************************************************************************)
(* app.py: name parts and the step-by-step breakdown                       *)
(***************************************************************************)
\* index of the first " " of s, 0 when there is none
FirstSpace(s) ==
    IF \E i \in 1..Len(s) : s[i] = " "
    THEN CHOOSE i \in 1..Len(s) : s[i] = " " /\ \A j \in 1..(i - 1) : s[j] # " "
    ELSE 0

\* variant: split(' ', 1) without the strip()
parse_without_strip(full_name) ==
    IF FirstSpace(full_name) = 0
    THEN <<full_name, <<>>>>
    ELSE <<SubSeq(full_name, 1, FirstSpace(full_name) - 1),
           SubSeq(full_name, FirstSpace(full_name) + 1, Len(full_name))>>

\* full_name.strip().split(' ', 1), padded with "" when there is one part
parse_name_components(full_name) ==
    LET stripped == str_strip(full_name)
        at == FirstSpace(stripped)
    IN  IF at = 0
        THEN <<stripped, <<>>>>
        ELSE <<SubSeq(stripped, 1, at - 1), SubSeq(stripped, at + 1, Len(stripped))>>

\* variant: the table of the help text in display_results
letter_values_of_help_text == docstring_values

\* the dictionary get_letter_values() returns
get_letter_values ==
    ("A" :> 1) @@ ("J" :> 1) @@ ("S" :> 3) @@
    ("B" :> 2) @@ ("K" :> 2) @@ ("T" :> 4) @@
    ("C" :> 3) @@ ("L" :> 3) @@ ("U" :> 6) @@
    ("D" :> 4) @@ ("M" :> 4) @@ ("V" :> 6) @@
    ("E" :> 5) @@ ("N" :> 5) @@ ("W" :> 6) @@
    ("F" :> 8) @@ ("O" :> 7) @@ ("X" :> 5) @@
    ("G" :> 3) @@ ("P" :> 8) @@ ("Y" :> 1) @@
    ("H" :> 5) @@ ("Q" :> 1) @@ ("Z" :> 7) @@
    ("I" :> 1) @@ ("R" :> 2)

\* the dictionary `letter_values` inside cli_demo.show_calculation_breakdown
cli_letter_values ==
    ("A" :> 1) @@ ("J" :> 1) @@ ("S" :> 3) @@
    ("B" :> 2) @@ ("K" :> 2) @@ ("T" :> 4) @@
    ("C" :> 3) @@ ("L" :> 3) @@ ("U" :> 6) @@
    ("D" :> 4) @@ ("M" :> 4) @@ ("V" :> 6) @@
    ("E" :> 5) @@ ("N" :> 5) @@ ("W" :> 6) @@
    ("F" :> 8) @@ ("O" :> 7) @@ ("X" :> 5) @@
    ("G" :> 3) @@ ("P" :> 8) @@ ("Y" :> 1) @@
    ("H" :> 5) @@ ("Q" :> 1) @@ ("Z" :> 7) @@
    ("I" :> 1) @@ ("R" :> 2)

\* str(value) for the values of the tables
ValueText == <<"1", "2", "3", "4", "5", "6", "7", "8", "9">>

\* the loop of process_name_for_display over name.upper()
RECURSIVE display_loop(_, _, _, _, _)
display_loop(s, table, breakdown, t, ignored_chars) ==
    IF s = <<>>
    THEN [breakdown |-> breakdown, total |-> t, ignored_chars |-> ignored_chars]
    ELSE IF Head(s) \in DOMAIN table
         THEN display_loop(Tail(s), table,
                  Append(breakdown, <<Head(s), " = ", ValueText[table[Head(s)]]>>),
                  t + table[Head(s)], ignored_chars)
         ELSE IF isspace(Head(s))
              THEN display_loop(Tail(s), table, breakdown, t,
                       Append(ignored_chars, Head(s)))
              ELSE IF isalpha(Head(s))
                   THEN display_loop(Tail(s), table,
                            Append(breakdown, <<Head(s), " = ", "?">>), t, ignored_chars)
                   ELSE display_loop(Tail(s), table, breakdown, t, ignored_chars)

process_name_for_display(s, table) ==
    display_loop(str_upper(s), table, <<>>, 0, <<>>)

\* " + ".join(breakdown): the terms' pieces with " + " between the terms
RECURSIVE join_plus(_)
join_plus(breakdown) ==
    IF breakdown = <<>> THEN <<>>
    ELSE IF Len(breakdown) = 1 THEN Head(breakdown)
    ELSE Head(breakdown) \o <<" + ">> \o join_plus(Tail(breakdown))

NoDetails == [state |-> "none", breakdown |-> <<>>, total |-> 0,
              ignored_chars |-> <<>>, final_value |-> 0, reduced_shown |-> FALSE]

\* show_calculation_steps: the details it returns, and whether
\* display_calculation_breakdown wrote the "Reduced:" line
show_calculation_steps(s, final_value) ==
    LET d == process_name_for_display(s, get_letter_values)
    IN  [state |-> "returned",
         breakdown |-> d.breakdown,
         total |-> d.total,
         ignored_chars |-> d.ignored_chars,
         final_value |-> final_value,
         reduced_shown |-> (d.breakdown # <<>> /\ d.total # final_value)]

(***************************************************************************)
(* app.py: the history store                                               *)
(*                                                                         *)
(* An entry is a record with the keys of the JSON object; the timestamp    *)
(* key is left out, no operation reads it.  Entries written by an earlier  *)
(* version have no first_name and last_name keys.                          *)
(***************************************************************************)
MissingFile == [status |-> "missing", entries |-> <<>>]
CorruptFile == [status |-> "corrupt", entries |-> <<>>]
StoredFile(h) == [status |-> "ok", entries |-> h]

\* load_history(): [] when the file is missing or does not parse
load_history(f) == IF f.status = "ok" THEN f.entries ELSE <<>>

\* variant: name.strip() without lower()
strip_only(s) == str_strip(s)

\* name.lower().strip()
lower_strip(s) == str_strip(str_lower(s))

\* f"{entry.get('first_name', '')} {entry.get('last_name', '')}"
combined_name(e) == e.first_name \o <<" ">> \o e.last_name

has_name_parts(e) == "first_name" \in DOMAIN e /\ "last_name" \in DOMAIN e

\* variant: the stored names are compared without lower-casing
name_in_entries_case_sensitive(h, key) ==
    \E i \in 1..Len(h) :
        \/ str_strip(h[i].name) = key
        \/ /\ {"first_name", "last_name"} \subseteq DOMAIN h[i]
           /\ str_strip(h[i].first_name \o <<" ">> \o h[i].last_name) = key

\* the loop of is_name_in_history over the loaded entries: True on a match
name_in_entries(h, key) ==
    \E i \in 1..Len(h) :
        \/ lower_strip(h[i].name) = key
        \/ /\ has_name_parts(h[i])
           /\ lower_strip(combined_name(h[i])) = key

is_name_in_history(s, f) == name_in_entries(load_history(f), lower_strip(s))

\* the `calculation` object of a new entry
calculation_summary(d) ==
    [breakdown |-> join_plus(d.breakdown),
     total |-> d.total,
     final_value |-> d.final_value,
     ignored_chars_count |-> Len(d.ignored_chars)]

\* the dictionary `new_entry` of save_to_history
new_entry(s, value, text, d, sess) ==
    LET from_session == ~(sess.first_name = <<>> /\ sess.last_name = <<>> /\ s # <<>>)
        first == IF from_session THEN sess.first_name ELSE parse_name_components(s)[1]
        last == IF from_session THEN sess.last_name ELSE parse_name_components(s)[2]
        base == [name |-> s, first_name |-> first, last_name |-> last,
                 numerology_value |-> value, meaning |-> text]
    IN  IF d.state = "none"
        THEN base
        ELSE [name |-> s, first_name |-> first, last_name |-> last,
              numerology_value |-> value, meaning |-> text,
              calculation |-> calculation_summary(d)]

\* variant: the new entry is put in front of the list
save_to_history_prepend(s, value, text, d, f, sess) ==
    IF is_name_in_history(s, f)
    THEN [saved |-> FALSE, file |-> f]
    ELSE [saved |-> TRUE,
          file |-> StoredFile(<<new_entry(s, value, text, d, sess)>> \o load_history(f))]

\* save_to_history: what it returns and the file it leaves
save_to_history(s, value, text, d, f, sess) ==
    IF is_name_in_history(s, f)
    THEN [saved |-> FALSE, file |-> f]
    ELSE [saved |-> TRUE,
          file |-> StoredFile(Append(load_history(f), new_entry(s, value, text, d, sess)))]

(***************************************************************************)
(* app.py: one run of main()                                               *)
(*                                                                         *)
(* The framework runs main() again on every interaction.  `trigger` is the *)
(* widget whose click caused the run ("none" for a page load or a text     *)
(* edit): st.button(...) is true for that widget only.                     *)
(***************************************************************************)
NoSession == [first_name |-> <<>>, last_name |-> <<>>,
              history_cleared |-> FALSE, history_filter |-> {}]

NoScreen == [trigger |-> "none", banner |-> FALSE, warning |-> "", error |-> "",
             value |-> 0, meaning |-> "", steps |-> NoDetails, save |-> "not_called",
             existing |-> <<>>, widgets |-> {}, listed |-> <<>>]

NoCall == [fn |-> "none", name |-> <<>>, value |-> 0, meaning |-> "", saved |-> FALSE]

\* f"{first_name} {last_name}".strip()
full_name_of(first, last) == str_strip(first \o <<" ">> \o last)

\* the loop of handle_duplicate_name that looks for the entry to show
RECURSIVE find_existing(_, _)
find_existing(h, name_lower) ==
    IF h = <<>> THEN <<>>
    ELSE IF str_lower(Head(h).name) = name_lower THEN <<Head(h)>>
    ELSE IF has_name_parts(Head(h))
            /\ str_lower(str_strip(combined_name(Head(h)))) = name_lower
         THEN <<Head(h)>>
    ELSE find_existing(Tail(h), name_lower)

\* handle_duplicate_name: its return value, whether the "View Existing
\* Calculation" button was drawn, and the entry display_existing_calculation drew
handle_duplicate_name(s, f, view_clicked) ==
    IF ~is_name_in_history(s, f)
    THEN [handled |-> FALSE, existing |-> <<>>]
    ELSE [handled |-> TRUE,
          existing |-> IF view_clicked
                       THEN find_existing(load_history(f), str_lower(str_strip(s)))
                       ELSE <<>>]

\* process_calculation: what it draws and the file it leaves
process_calculation(s, f, sess) ==
    LET failed(message) ==
            [error |-> message, value |-> 0, meaning |-> "", steps |-> NoDetails,
             save |-> "not_called", file |-> f]
        saved(value, text, d, sv) ==
            [error |-> "", value |-> value, meaning |-> text, steps |-> d,
             save |-> IF sv.saved THEN "saved" ELSE "refused", file |-> sv.file]
        shown(value, text, d) ==
            saved(value, text, d, save_to_history(s, value, text, d, f, sess))
        calculated(r) ==
            IF r.state = "raised"
            THEN failed(r.error)
            ELSE shown(r.value, get_numerology_meaning(r.value),
                       show_calculation_steps(s, r.value))
        validated(v) ==
            IF ~v.valid
            THEN failed(v.error)
            ELSE calculated(calculate_numerology_value(s))
    IN  validated(validate_name_input(s))

\* history.reverse()
reversed(h) == [i \in 1..Len(h) |-> h[Len(h) + 1 - i]]

\* display_history up to the "Clear History" button: the entries it lists,
\* the widgets it draws and the selection the filter is left with
display_history(f, sess, trigger) ==
    LET h == reversed(load_history(f))
        options == {h[i].numerology_value : i \in 1..Len(h)}
        selected == IF trigger = "clear_filter" THEN {}
                    ELSE sess.history_filter \cap options
    IN  IF h = <<>>
        THEN [listed |-> <<>>, widgets |-> {}, selected |-> sess.history_filter]
        ELSE [listed |-> IF selected = {} THEN h
                         ELSE SelectSeq(h, LAMBDA e : e.numerology_value \in selected),
              widgets |-> {"history_filter", "clear_filter", "clear_history"},
              selected |-> selected]

\* main() for one run, without the rerun the "Clear History" button asks for
main_once(trigger, first, last, f, sess) ==
    LET sess1 == [sess EXCEPT !.first_name = first, !.last_name = last,
                              !.history_cleared = FALSE]
        shown == [NoScreen EXCEPT !.trigger = trigger, !.banner = sess.history_cleared]
        \* the history section under what the Calculate branch drew
        with_history(f1, drawn, dh) ==
            [file |-> f1,
             session |-> [sess1 EXCEPT !.history_filter = dh.selected],
             screen |-> [drawn EXCEPT !.listed = dh.listed, !.widgets = dh.widgets]]
        page(f1, drawn) == with_history(f1, drawn, display_history(f1, sess1, trigger))
        processed(pc) ==
            page(pc.file, [shown EXCEPT !.error = pc.error, !.value = pc.value,
                                        !.meaning = pc.meaning, !.steps = pc.steps,
                                        !.save = pc.save])
        \* the branch of the Calculate button
        calculate(full_name, dup) ==
            IF full_name = <<>>
            THEN [file |-> f, session |-> sess1,
                  screen |-> [shown EXCEPT !.warning = "empty"]]
            ELSE IF dup.handled
            THEN [file |-> f, session |-> sess1,
                  screen |-> [shown EXCEPT !.warning = "duplicate",
                                           !.existing = dup.existing,
                                           !.widgets = {"view_existing"}]]
            ELSE processed(process_calculation(full_name, f, sess1))
        entered(full_name) ==
            IF trigger = "calculate"
            THEN calculate(full_name,
                           handle_duplicate_name(full_name, f, trigger = "view_existing"))
            ELSE page(f, shown)
    IN  entered(full_name_of(first, last))

\* variant: the "Clear History" button sets the flag and reruns, the file stays
main_clear_keeps_file(trigger, first, last, f, sess) ==
    LET rerun(again) == [again EXCEPT !.screen.trigger = "clear_history"]
        clicked(run) ==
            IF trigger = "clear_history" /\ "clear_history" \in run.screen.widgets
               /\ f.status # "missing"
            THEN rerun(main_once("none", first, last, f,
                                 [run.session EXCEPT !.history_cleared = TRUE]))
            ELSE run
    IN  clicked(main_once(trigger, first, last, f, sess))

\* main(): a click on "Clear History" removes the file, sets the flag and
\* reruns, and the rerun draws the page
main(trigger, first, last, f, sess) ==
    LET rerun(again) == [again EXCEPT !.screen.trigger = "clear_history"]
        clicked(run) ==
            IF trigger = "clear_history" /\ "clear_history" \in run.screen.widgets
               /\ f.status # "missing"
            THEN rerun(main_once("none", first, last, MissingFile,
                                 [run.session EXCEPT !.history_cleared = TRUE]))
            ELSE run
    IN  clicked(main_once(trigger, first, last, f, sess))

(***************************************************************************)
(* Inputs                                                                  *)
(***************************************************************************)
\* names the self-check script passes to the core
SampleNames ==
    { <<"J", "O", "H", "N">>,
      <<"j", "o", "h", "n">>,
      <<"J", "o", "h", "n">>,
      <<"J", " ", "O", " ", "H", " ", "N">>,
      <<" ", "J", "O", "H", "N", " ">>,
      <<"J", "O", " ", "H", "N">>,
      <<"J", "\t", "O", "\t", "H", "\t", "N">>,
      <<"J", " ", " ", " ", "O", " ", " ", " ", "H", " ", " ", " ", "N">>,
      <<"M", "A", "R", "Y", " ", "J", "A", "N", "E">>,
      <<"M", "A", "R", "Y", "J", "A", "N", "E">>,
      <<"J", "o", "h", "n", " ", "D", "o", "e">>,
      <<" ", " ", " ">>,
      <<"1", "1", "1">> }

Names == UNION {[1..n -> Alphabet] : n \in 0..MaxNameLen} \cup SampleNames

Numbers == (-MaxNumber)..MaxNumber

\* what the user types into the "First Name" and "Last Name" fields
FirstNames == { <<>>, <<"F">>, <<"f">>, <<"F", "S">>, <<"1">>, <<"U+00E9">> }
LastNames == { <<>>, <<"P">> }

\* names passed to save_to_history by a direct caller
StoreNames == { <<"J">>, <<"j", " ">>, <<"D">>, <<"j", " ", "d">>, <<"A", " ", "B">> }

\* an entry written by the single-field version of the application
LegacyEntry == [name |-> <<"A", " ", "B">>, numerology_value |-> 3,
                meaning |-> "Creativity, communication, optimism"]

(***************************************************************************)
(* The state machine                                                       *)
(***************************************************************************)
InitByName ==
    /\ driver = "by_name"
    /\ name \in Names
    /\ input = 0

InitByNumber ==
    /\ driver = "by_number"
    /\ name = <<>>
    /\ input \in Numbers

\* parse_name_components and process_name_for_display called on a name
InitByHelper ==
    /\ driver = "by_helper"
    /\ name \in Names
    /\ input = 0

\* the web application, started without a history file
InitByApp ==
    /\ driver = "by_app"
    /\ name = <<>>
    /\ input = 0

\* direct calls of save_to_history on a missing, unparsable or older file
InitByStore ==
    /\ driver = "by_store"
    /\ name = <<>>
    /\ input = 0

Init ==
    /\ InitByName \/ InitByNumber \/ InitByHelper \/ InitByApp \/ InitByStore
    /\ parts = <<>>
    /\ details = NoDetails
    /\ IF driver = "by_store"
       THEN /\ history_file \in {MissingFile, CorruptFile, StoredFile(<<LegacyEntry>>)}
            /\ session \in {NoSession,
                             [NoSession EXCEPT !.first_name = <<"J">>,
                                               !.last_name = <<"D">>]}
       ELSE /\ history_file = MissingFile
            /\ session = NoSession
    /\ screen = NoScreen
    /\ call = NoCall
    /\ validation = NoValidation
    /\ total = 0
    /\ valid_chars = 0
    /\ result = NoResult
    /\ meaning = ""
    /\ rpc = "idle"
    /\ number = 0
    /\ digit_sum = 0
    /\ temp = 0

\* a call validate_name_input(name)
ValidateNameInput ==
    /\ driver = "by_name"
    /\ validation.state = "none"
    /\ validation' = validate_name_input(name)
    /\ UNCHANGED <<driver, name, total, valid_chars, result, meaning>>
    /\ UNCHANGED reduceVars
    /\ UNCHANGED helperVars
    /\ UNCHANGED appVars

\* a call calculate_numerology_value(name)
CalculateNumerologyValue ==
    /\ driver = "by_name"
    /\ result.state = "none"
    /\ result' = calculate_numerology_value(name)
    /\ IF IsBlank(name)
       THEN UNCHANGED <<total, valid_chars>>
       ELSE LET sc == scan(str_upper(name), 0, 0)
            IN  /\ total' = sc.total
                /\ valid_chars' = sc.valid_chars
    /\ UNCHANGED <<driver, name, validation, meaning>>
    /\ UNCHANGED reduceVars
    /\ UNCHANGED helperVars
    /\ UNCHANGED appVars

\* get_numerology_meaning applied to the value calculate_numerology_value returned
GetMeaningOfResult ==
    /\ driver = "by_name"
    /\ result.state = "returned"
    /\ meaning = ""
    /\ meaning' = get_numerology_meaning(result.value)
    /\ UNCHANGED <<driver, name, validation, total, valid_chars, result>>
    /\ UNCHANGED reduceVars
    /\ UNCHANGED helperVars
    /\ UNCHANGED appVars

\* a direct call get_numerology_meaning(input)
GetMeaningOfNumber ==
    /\ driver = "by_number"
    /\ meaning = ""
    /\ meaning' = get_numerology_meaning(input)
    /\ UNCHANGED driver
    /\ UNCHANGED nameVars
    /\ UNCHANGED reduceVars
    /\ UNCHANGED helperVars
    /\ UNCHANGED appVars

\* entry of reduce_to_final_number(input)
ReduceCall ==
    /\ driver = "by_number"
    /\ rpc = "idle"
    /\ number' = input
    /\ rpc' = "outer"
    /\ UNCHANGED <<driver, meaning, input, digit_sum, temp>>
    /\ UNCHANGED nameVars
    /\ UNCHANGED helperVars
    /\ UNCHANGED appVars

\* variant: the master-number test left out
ReduceOuter_no_master ==
    /\ rpc = "outer"
    /\ IF number > 9
       THEN /\ digit_sum' = 0
            /\ temp' = number
            /\ rpc' = "inner"
       ELSE /\ rpc' = "done"
            /\ UNCHANGED <<digit_sum, temp>>
    /\ UNCHANGED <<driver, meaning, input, number>>
    /\ UNCHANGED nameVars
    /\ UNCHANGED helperVars
    /\ UNCHANGED appVars

\* `while number > 9:` with the master-number test and the loop's set-up
ReduceOuter ==
    /\ rpc = "outer"
    /\ IF number > 9
       THEN IF number \in MasterNumbers
            THEN /\ rpc' = "done"
                 /\ UNCHANGED <<digit_sum, temp>>
            ELSE /\ digit_sum' = 0
                 /\ temp' = number
                 /\ rpc' = "inner"
       ELSE /\ rpc' = "done"
            /\ UNCHANGED <<digit_sum, temp>>
    /\ UNCHANGED <<driver, meaning, input, number>>
    /\ UNCHANGED nameVars
    /\ UNCHANGED helperVars
    /\ UNCHANGED appVars

\* one pass of `while temp > 0:`
ReduceInner ==
    /\ rpc = "inner"
    /\ temp > 0
    /\ digit_sum' = digit_sum + (temp % 10)
    /\ temp' = temp \div 10
    /\ UNCHANGED <<driver, meaning, input, number, rpc>>
    /\ UNCHANGED nameVars
    /\ UNCHANGED helperVars
    /\ UNCHANGED appVars

\* variant: `if number > 9` instead of `while number > 9`
ReduceAssign_once ==
    /\ rpc = "inner"
    /\ ~(temp > 0)
    /\ number' = digit_sum
    /\ rpc' = "done"
    /\ UNCHANGED <<driver, meaning, input, digit_sum, temp>>
    /\ UNCHANGED nameVars
    /\ UNCHANGED helperVars
    /\ UNCHANGED appVars

\* exit of the inner loop: `number = digit_sum`
ReduceAssign ==
    /\ rpc = "inner"
    /\ ~(temp > 0)
    /\ number' = digit_sum
    /\ rpc' = "outer"
    /\ UNCHANGED <<driver, meaning, input, digit_sum, temp>>
    /\ UNCHANGED nameVars
    /\ UNCHANGED helperVars
    /\ UNCHANGED appVars

\* a call parse_name_components(name)
ParseNameComponents ==
    /\ driver = "by_helper"
    /\ parts = <<>>
    /\ parts' = parse_name_components(name)
    /\ UNCHANGED <<driver, name, details>>
    /\ UNCHANGED coreVars
    /\ UNCHANGED appVars

\* a call show_calculation_steps(name, calculate_numerology_value(name))
ShowCalculationSteps ==
    /\ driver = "by_helper"
    /\ details.state = "none"
    /\ calculate_numerology_value(name).state = "returned"
    /\ details' = show_calculation_steps(name, calculate_numerology_value(name).value)
    /\ UNCHANGED <<driver, name, parts>>
    /\ UNCHANGED coreVars
    /\ UNCHANGED appVars

\* a direct call save_to_history(s, value, meaning) or
\* save_to_history(s, value, meaning, calculation_details)
SaveToHistoryCall ==
    /\ driver = "by_store"
    /\ \E s \in StoreNames, with_details \in BOOLEAN :
          LET r == calculate_numerology_value(s)
              text == get_numerology_meaning(r.value)
              d == IF with_details THEN show_calculation_steps(s, r.value) ELSE NoDetails
              sv == save_to_history(s, r.value, text, d, history_file, session)
          IN  /\ r.state = "returned"
              /\ Len(sv.file.entries) <= MaxHistory
              /\ history_file' = sv.file
              /\ call' = [fn |-> "save_to_history", name |-> s, value |-> r.value,
                          meaning |-> text, saved |-> sv.saved]
    /\ UNCHANGED <<driver, name, session, screen>>
    /\ UNCHANGED helperVars
    /\ UNCHANGED coreVars

\* a run of main() with the given click and field contents
Run(trigger, first, last, sess) ==
    \E out \in {main(trigger, first, last, history_file, sess)} :
        /\ driver = "by_app"
        /\ Len(out.file.entries) <= MaxHistory
        /\ history_file' = out.file
        /\ session' = out.session
        /\ screen' = out.screen
        /\ UNCHANGED <<driver, name, call>>
        /\ UNCHANGED helperVars
        /\ UNCHANGED coreVars

\* the page is loaded again with the fields as they are
RunLoad ==
    /\ driver = "by_app"
    /\ Run("none", session.first_name, session.last_name, session)

\* a click on "Calculate Numerology Value"
RunCalculate ==
    /\ driver = "by_app"
    /\ \E first \in FirstNames, last \in LastNames :
          Run("calculate", first, last, session)

\* a click on "View Existing Calculation"
RunViewExisting ==
    /\ "view_existing" \in screen.widgets
    /\ Run("view_existing", session.first_name, session.last_name, session)

\* a change of the "Select values to display" filter
RunSelectFilter ==
    /\ "history_filter" \in screen.widgets
    /\ \E v \in {e.numerology_value : e \in {screen.listed[i] : i \in 1..Len(screen.listed)}} :
          Run("history_filter", session.first_name, session.last_name,
              [session EXCEPT !.history_filter = {v}])

\* a click on "Clear Filter"
RunClearFilter ==
    /\ "clear_filter" \in screen.widgets
    /\ Run("clear_filter", session.first_name, session.last_name, session)

\* a click on "Clear History"
RunClearHistory ==
    /\ "clear_history" \in screen.widgets
    /\ Run("clear_history", session.first_name, session.last_name, session)

ReduceStep == ReduceCall \/ ReduceOuter \/ ReduceInner \/ ReduceAssign

Next ==
    \/ ValidateNameInput
    \/ CalculateNumerologyValue
    \/ GetMeaningOfResult
    \/ GetMeaningOfNumber
    \/ ReduceCall
    \/ ReduceOuter
    \/ ReduceInner
    \/ ReduceAssign
    \/ ParseNameComponents
    \/ ShowCalculationSteps
    \/ SaveToHistoryCall
    \/ RunLoad
    \/ RunCalculate
    \/ RunViewExisting
    \/ RunSelectFilter
    \/ RunClearFilter
    \/ RunClearHistory

Spec == Init /\ [][Next]_vars

\* reduce_to_final_number runs to its return once called
FairSpec == Spec /\ WF_vars(ReduceStep)

(***************************************************************************)
(* Helpers for stating the properties                                      *)
(***************************************************************************)
\* the values a reduction may end in
FinalValues == (1..9) \cup {11, 22, 33}

\* Python's `sub in text` on strings
Contains(text, sub) ==
    \E i \in 1..(Len(text) - Len(sub) + 1) : SubSeq(text, i, i + Len(sub) - 1) = sub

JOHN == <<"J", "O", "H", "N">>

(***************************************************************************)
(* C1: every value calculate_numerology_value returns, and every value     *)
(* reduce_to_final_number returns for a positive argument, is one of       *)
(* 1..9, 11, 22, 33.                                                       *)
(***************************************************************************)
C1_ValueInFinalSet ==
    /\ result.state = "returned" => result.value \in FinalValues
    /\ (rpc = "done" /\ input >= 1) => number \in FinalValues

C1_Witness ==
    /\ result.state = "returned"
    /\ result.value = 11
    /\ Len(name) = 2

(***************************************************************************)
(* C2: the core scores letters with the Pythagorean table of its           *)
(* docstring: the map is total over A-Z, only I and R map to 9, and a      *)
(* single-letter name L yields the table's value for L.                    *)
(***************************************************************************)
C2_PythagoreanTable ==
    /\ DOMAIN letter_values = AsciiUpper
    /\ \A L \in DOMAIN letter_values : letter_values[L] = 9 => L \in {"I", "R"}
    /\ (Len(name) = 1 /\ name[1] \in AsciiUpper /\ result.state # "none")
          => result = Returned(docstring_values[name[1]])

RECURSIVE DecimalDigits(_)
DecimalDigits(n) ==
    IF n < 10 THEN <<n>> ELSE Append(DecimalDigits(n \div 10), n % 10)

RECURSIVE SeqSum(_)
SeqSum(q) == IF q = <<>> THEN 0 ELSE Head(q) + SeqSum(Tail(q))

RECURSIVE ReferenceReduction(_)
ReferenceReduction(n) ==
    IF n <= 9 THEN n
    ELSE IF n \in {11, 22, 33} THEN n
    ELSE ReferenceReduction(SeqSum(DecimalDigits(n)))

C4_ReduceMatchesReference ==
    /\ []((rpc = "done" /\ input >= 1) => number = ReferenceReduction(input))
    /\ (driver = "by_number" /\ input >= 1) => <>(rpc = "done")

C4_Witness ==
    /\ rpc = "done"
    /\ input = 29
    /\ number = 11

(***************************************************************************)
(* C5: reduce_to_final_number is idempotent on its own output: reducing    *)
(* the value it returned for a positive n gives that value again.          *)
(***************************************************************************)
C5_ReduceIdempotent ==
    (rpc = "done" /\ input >= 1) => reduce_to_final_number(number) = number

C5_Witness ==
    /\ rpc = "done"
    /\ input = 199
    /\ number = 1

(***************************************************************************)
(* C6: for a name made only of the letters A-Z and a-z, the outcome of     *)
(* calculate_numerology_value is the same for the name, for the name       *)
(* upper-cased and for the name lower-cased.                               *)
(***************************************************************************)
OnlyAsciiLetters(s) == \A i \in 1..Len(s) : s[i] \in AsciiUpper \cup AsciiLower

C6_CaseInsensitive ==
    (OnlyAsciiLetters(name) /\ result.state # "none") =>
        /\ calculate_numerology_value(str_upper(name)) = result
        /\ calculate_numerology_value(str_lower(name)) = result

C6_Witness ==
    /\ name = <<"J", "o", "h", "n">>
    /\ result = Returned(9)

(***************************************************************************)
(* C7: spaces, tabs, digits and punctuation never affect the result: a     *)
(* name and the same name with all of them removed either both fail or     *)
(* both return the same value.                                             *)
(***************************************************************************)
Ignorable == {" ", "\t", "1", "-"}

RemoveIgnorable(s) == SelectSeq(s, LAMBDA c : c \notin Ignorable)

C7_UnmappedIgnored ==
    result.state # "none" =>
        LET bare == calculate_numerology_value(RemoveIgnorable(name))
        IN  /\ (result.state = "returned") <=> (bare.state = "returned")
            /\ result.value = bare.value

C7_Witness ==
    /\ name = <<"J", "\t", "O", "\t", "H", "\t", "N">>
    /\ result = Returned(9)

(***************************************************************************)
(* C8: validate_name_input returns (False, "Please enter a name") for an   *)
(* empty or all-whitespace name, (False, "Name must contain at least one   *)
(* letter") for a non-blank name without an alphabetic character, and      *)
(* (True, "") otherwise.                                                   *)
(***************************************************************************)
OnlyWhitespace(s) == \A i \in 1..Len(s) : s[i] \in {" ", "\t"}

C8_Validation ==
    validation.state = "returned" =>
        IF OnlyWhitespace(name)
        THEN validation.valid = FALSE /\ validation.error = "Please enter a name"
        ELSE IF \A i \in 1..Len(name) : ~isalpha(name[i])
             THEN /\ validation.valid = FALSE
                  /\ validation.error = "Name must contain at least one letter"
             ELSE validation.valid = TRUE /\ validation.error = ""

C8_Witness ==
    /\ name = <<" ", "1">>
    /\ validation.state = "returned"
    /\ validation.error = "Name must contain at least one letter"

(***************************************************************************)
(* C9: calculate_numerology_value fails with "Name cannot be empty" for a  *)
(* blank name and with "Name must contain at least one valid letter"       *)
(* exactly when a non-blank name, upper-cased, has no character in the     *)
(* letter-value map; a name made only of alphabetic characters outside     *)
(* A-Z passes validate_name_input and fails calculate_numerology_value; a  *)
(* name on which the calculation succeeds passes validate_name_input.      *)
(***************************************************************************)
NoMappedCharacter(s) ==
    \A i \in 1..Len(s) : \A j \in 1..Len(UpperTable[s[i]]) :
        UpperTable[s[i]][j] \notin AsciiUpper

\* the part about the two error messages and about success implying validity
C9_ErrorCases ==
    result.state # "none" =>
        /\ OnlyWhitespace(name) => result = Raised("Name cannot be empty")
        /\ result = Raised("Name must contain at least one valid letter")
              <=> (~OnlyWhitespace(name) /\ NoMappedCharacter(name))
        /\ result.state = "returned" =>
              (validation.state = "returned" => validation.valid)

C9_NonLatinNameFails ==
    /\ C9_ErrorCases
    /\ (/\ name # <<>>
        /\ \A i \in 1..Len(name) :
              isalpha(name[i]) /\ name[i] \notin AsciiUpper \cup AsciiLower
        /\ result.state # "none"
        /\ validation.state # "none")
          => (/\ validation.valid
              /\ result = Raised("Name must contain at least one valid letter"))

(***************************************************************************)
(* C10: get_numerology_meaning returns a text other than "Unknown number"  *)
(* for 1..9, 11, 22, 33, the texts for 11, 22, 33 contain "Master Number", *)
(* every other integer gives "Unknown number", and the meaning of a        *)
(* calculated value is never "Unknown number".                             *)
(***************************************************************************)
C10_Meanings ==
    /\ (driver = "by_number" /\ meaning # "") =>
          IF input \in (1..9) \cup {11, 22, 33}
          THEN /\ meaning # "Unknown number"
               /\ input \in {11, 22, 33} => Contains(meaning, "Master Number")
          ELSE meaning = "Unknown number"
    /\ (driver = "by_name" /\ meaning # "") => meaning # "Unknown number"

C10_Witness ==
    /\ driver = "by_number"
    /\ input = 22
    /\ Contains(meaning, "Master Number")

(***************************************************************************)
(* Helpers for the properties of the history store                         *)
(***************************************************************************)
\* a name lower-cased and trimmed
LowerTrim(s) == str_strip(str_lower(s))

\* s equals a stored name, or a stored "first last", after lower-casing and trimming
StoredAlready(s, h) ==
    \E i \in 1..Len(h) :
        \/ LowerTrim(h[i].name) = LowerTrim(s)
        \/ /\ {"first_name", "last_name"} \subseteq DOMAIN h[i]
           /\ LowerTrim(h[i].first_name \o <<" ">> \o h[i].last_name) = LowerTrim(s)

Loaded(f) == IF f.status = "ok" THEN f.entries ELSE <<>>

\* what a save of (s, value, text) must do to the store
SaveOutcome(s, value, text, saved, before, after) ==
    IF StoredAlready(s, Loaded(before))
    THEN /\ saved = FALSE
         /\ after = before
    ELSE /\ saved = TRUE
         /\ Len(Loaded(after)) = Len(Loaded(before)) + 1
         /\ Loaded(after)[Len(Loaded(after))].name = s
         /\ Loaded(after)[Len(Loaded(after))].numerology_value = value
         /\ Loaded(after)[Len(Loaded(after))].meaning = text

(***************************************************************************)
(* C11: a save_to_history of a name not in the history makes load_history  *)
(* one longer, its last entry carrying the saved name, value and meaning;  *)
(* a save of a name equal to a stored name, or to a stored "first last",   *)
(* after lower-casing and trimming returns False and writes nothing.       *)
(***************************************************************************)
C11_SaveRoundTrip ==
    [][ /\ driver = "by_store" =>
              SaveOutcome(call'.name, call'.value, call'.meaning, call'.saved,
                          history_file, history_file')
        /\ (driver = "by_app" /\ screen'.save # "not_called") =>
              SaveOutcome(full_name_of(session'.first_name, session'.last_name),
                          screen'.value, screen'.meaning, screen'.save = "saved",
                          history_file, history_file')
      ]_vars

\* a save refused because of a stored "first last" only
C11_Witness ==
    /\ driver = "by_store"
    /\ call.name = <<"j", " ", "d">>
    /\ call.saved = FALSE
    /\ \A i \in 1..Len(history_file.entries) :
          LowerTrim(history_file.entries[i].name) # <<"j", " ", "d">>

(***************************************************************************)
(* C12: after a click on "Clear History" load_history returns an empty     *)
(* sequence and no name stored before is reported as a duplicate; the next *)
(* successful save leaves a history of exactly one entry.                  *)
(***************************************************************************)
C12_ClearThenSave ==
    [][ /\ (driver = "by_app" /\ screen'.trigger = "clear_history") =>
              /\ load_history(history_file') = <<>>
              /\ \A i \in 1..Len(history_file.entries) :
                    ~is_name_in_history(history_file.entries[i].name, history_file')
        /\ (driver = "by_app" /\ load_history(history_file) = <<>>
              /\ screen'.save = "saved") =>
              Len(load_history(history_file')) = 1
      ]_vars

C12_Witness ==
    /\ driver = "by_app"
    /\ screen.trigger = "clear_history"
    /\ screen.banner
    /\ history_file = MissingFile

(***************************************************************************)
(* C13: after a Calculate click for a name already in the history, a click *)
(* on "View Existing Calculation" renders the matching stored entry,       *)
(* without a write to the history store.                                   *)
(***************************************************************************)
C13_ViewExistingShowsEntry ==
    (driver = "by_app" /\ screen.trigger = "view_existing") =>
        /\ screen.existing # <<>>
        /\ LowerTrim(screen.existing[1].name)
              = LowerTrim(full_name_of(session.first_name, session.last_name))

(***************************************************************************)
(* C14: every user action other than "Clear History" leaves the stored     *)
(* entries unchanged and in place; only a successful calculation of a new  *)
(* name changes the store, by adding exactly one entry at the end.         *)
(***************************************************************************)
C14_AppendOnly ==
    [][ (driver = "by_app" /\ screen'.trigger # "clear_history") =>
            LET before == Loaded(history_file)
                after == Loaded(history_file')
            IN  \/ history_file' = history_file
                \/ /\ Len(after) = Len(before) + 1
                   /\ SubSeq(after, 1, Len(before)) = before
                   /\ screen'.trigger = "calculate"
                   /\ screen'.warning = ""
                   /\ screen'.error = ""
                   /\ ~StoredAlready(after[Len(after)].name, before)
      ]_vars

C14_Witness ==
    /\ driver = "by_app"
    /\ Len(history_file.entries) = 2
    /\ screen.trigger = "calculate"
    /\ screen.save = "saved"

(***************************************************************************)
(* C15: in the web application started on an empty store, no two stored    *)
(* entries have names equal after lower-casing and trimming, and each      *)
(* entry's name is the trimmed "first_name last_name" of its own fields.   *)
(***************************************************************************)
C15_UniqueNames ==
    driver = "by_app" =>
        LET h == history_file.entries
        IN  /\ \A i, j \in 1..Len(h) :
                  i # j => LowerTrim(h[i].name) # LowerTrim(h[j].name)
            /\ \A i \in 1..Len(h) :
                  h[i].name = str_strip(h[i].first_name \o <<" ">> \o h[i].last_name)

C15_Witness ==
    /\ driver = "by_app"
    /\ Len(history_file.entries) = 2
    /\ history_file.entries[1].first_name = <<>>
    /\ history_file.entries[2].last_name = <<"P">>

(***************************************************************************)
(* C16: the display tables of the application and of the terminal demo     *)
(* give every letter the value of the core's table; the displayed total    *)
(* reduces to the calculated value; every saved entry has                  *)
(* calculation.final_value = numerology_value; "Reduced" is shown exactly  *)
(* when the total differs from the final value.                            *)
(***************************************************************************)
BreakdownAgrees(d, s) ==
    /\ reduce_to_final_number(d.total) = calculate_numerology_value(s).value
    /\ d.final_value = calculate_numerology_value(s).value
    /\ d.reduced_shown <=> (d.total # d.final_value)

C16_BreakdownAgreesWithCore ==
    /\ \A L \in AsciiUpper :
          /\ get_letter_values[L] = letter_values[L]
          /\ cli_letter_values[L] = letter_values[L]
    /\ (driver = "by_helper" /\ details.state = "returned") =>
          BreakdownAgrees(details, name)
    /\ (driver = "by_app" /\ screen.steps.state = "returned") =>
          BreakdownAgrees(screen.steps,
                          full_name_of(session.first_name, session.last_name))
    /\ driver = "by_app" =>
          \A i \in 1..Len(history_file.entries) :
              LET e == history_file.entries[i]
              IN  /\ e.calculation.final_value = e.numerology_value
                  /\ reduce_to_final_number(e.calculation.total) = e.numerology_value
                  /\ e.numerology_value = calculate_numerology_value(e.name).value

C16_Witness ==
    /\ driver = "by_app"
    /\ screen.steps.reduced_shown
    /\ screen.steps.total = 16
    /\ screen.save = "saved"
    /\ history_file.entries[Len(history_file.entries)].calculation.final_value = 7

(***************************************************************************)
(* C17: parse_name_components splits a name at its first whitespace run:   *)
(* first is the text before the run, last the text after the whole run,    *)
(* and a name without whitespace gives (name, "").                         *)
(***************************************************************************)
IsWhite(c) == c \in {" ", "\t"}

\* the split at the first whitespace run
SplitAtWhitespaceRun(s) ==
    IF \A i \in 1..Len(s) : ~IsWhite(s[i])
    THEN <<s, <<>>>>
    ELSE LET at == CHOOSE i \in 1..Len(s) :
                       IsWhite(s[i]) /\ \A j \in 1..(i - 1) : ~IsWhite(s[j])
             rest == SubSeq(s, at, Len(s))
             skip == IF \A i \in 1..Len(rest) : IsWhite(rest[i])
                     THEN Len(rest)
                     ELSE (CHOOSE i \in 1..Len(rest) :
                              ~IsWhite(rest[i]) /\ \A j \in 1..(i - 1) : IsWhite(rest[j])) - 1
         IN  <<SubSeq(s, 1, at - 1), SubSeq(rest, skip + 1, Len(rest))>>

\* the original wording, for names without leading or trailing whitespace
C17_SplitsAtWhitespaceRun ==
    (driver = "by_helper" /\ parts # <<>>
        /\ (name = <<>> \/ (~IsWhite(name[1]) /\ ~IsWhite(name[Len(name)]))))
      => parts = SplitAtWhitespaceRun(name)

\* the split of the trimmed name at its first space character
SplitAtFirstSpace(s) ==
    LET t == str_strip(s)
    IN  IF \A i \in 1..Len(t) : t[i] # " "
        THEN <<t, <<>>>>
        ELSE LET at == CHOOSE i \in 1..Len(t) :
                           t[i] = " " /\ \A j \in 1..(i - 1) : t[j] # " "
             IN  <<[i \in 1..(at - 1) |-> t[i]],
                   [i \in 1..(Len(t) - at) |-> t[at + i]]>>

C17_SplitsAtFirstSpace ==
    (driver = "by_helper" /\ parts # <<>>) => parts = SplitAtFirstSpace(name)

C17_Witness ==
    /\ driver = "by_helper"
    /\ name = <<"J", " ", " ", " ", "O", " ", " ", " ", "H", " ", " ", " ", "N">>
    /\ parts = << <<"J">>, <<" ", " ", "O", " ", " ", " ", "H", " ", " ", " ", "N">> >>

====
